---- MODULE Spec2Model ----
(***************************************************************************)
(* A model of function_app.py: the Event Grid handler that decodes a       *)
(* blob-created event, downloads the PDF, has it classified by an HTTP     *)
(* service and writes a renamed copy and a JSON record back to storage.    *)
(*                                                                         *)
(* Python strings are sequences of one-character strings, so that split,   *)
(* join, lower, endswith, `in` and os.path.splitext are computed as the    *)
(* code computes them.                                                     *)
(***************************************************************************)
EXTENDS Naturals, Integers, Sequences, FiniteSets, TLC

(* ------------------------------------------------------------------ *)
(* str operations                                                     *)
(* ------------------------------------------------------------------ *)

UpperCase == <<"A", "B", "C", "D", "E", "F", "G", "H", "I", "J", "K", "L", "M", "N", "O", "P", "Q", "R", "S", "T", "U", "V", "W", "X", "Y", "Z">>

LowerCase == <<"a", "b", "c", "d", "e", "f", "g", "h", "i", "j", "k", "l", "m", "n", "o", "p", "q", "r", "s", "t", "u", "v", "w", "x", "y", "z">>

\* str.lower() on one character
LowerChar(c) ==
    IF \E i \in 1..Len(UpperCase) : UpperCase[i] = c
    THEN LowerCase[CHOOSE i \in 1..Len(UpperCase) : UpperCase[i] = c]
    ELSE c

\* str.lower()
Lower(s) == [i \in 1..Len(s) |-> LowerChar(s[i])]

\* s.endswith(suffix)
EndsWith(s, suffix) ==
    /\ Len(suffix) <= Len(s)
    /\ SubSeq(s, Len(s) - Len(suffix) + 1, Len(s)) = suffix

\* sub in s
Contains(s, sub) ==
    \E i \in 1..(Len(s) - Len(sub) + 1) : SubSeq(s, i, i + Len(sub) - 1) = sub

\* the positions of the separator sep in s
SepPositions(s, sep) == {i \in 1..Len(s) : s[i] = sep}

\* the position of the k-th separator (k = 0: before the string, k past the last: after it)
SepAt(s, sep, k) ==
    IF k = 0 THEN 0
    ELSE IF k > Cardinality(SepPositions(s, sep)) THEN Len(s) + 1
    ELSE CHOOSE i \in SepPositions(s, sep) :
            Cardinality({j \in SepPositions(s, sep) : j < i}) = k - 1

\* s.split(sep) for a one-character separator: always at least one part
Split(s, sep) ==
    [k \in 1..(Cardinality(SepPositions(s, sep)) + 1) |->
        SubSeq(s, SepAt(s, sep, k - 1) + 1, SepAt(s, sep, k) - 1)]

\* sep.join(parts)
RECURSIVE Join(_, _)
Join(parts, sep) ==
    IF Len(parts) = 0 THEN <<>>
    ELSE IF Len(parts) = 1 THEN parts[1]
    ELSE parts[1] \o <<sep>> \o Join(Tail(parts), sep)

\* parts[n:] with a 0-based n
SliceFrom(parts, n) == SubSeq(parts, n + 1, Len(parts))

\* list.index(x) + 1 is the 1-based position of the first occurrence
IndexOf(parts, x) == CHOOSE i \in 1..Len(parts) : parts[i] = x /\ \A j \in 1..(i - 1) : parts[j] # x

\* s.rfind(c) as a 1-based position, 0 when absent
RFind(s, c) ==
    IF \E i \in 1..Len(s) : s[i] = c
    THEN CHOOSE i \in 1..Len(s) : s[i] = c /\ \A j \in (i + 1)..Len(s) : s[j] # c
    ELSE 0

\* os.path.splitext (posixpath): the extension starts at the last dot of the
\* last path component, unless only dots precede that dot in the component
SplitExt(p) ==
    LET sepIndex == RFind(p, "/")
        dotIndex == RFind(p, ".")
    IN  IF /\ dotIndex > sepIndex
           /\ \E i \in (sepIndex + 1)..(dotIndex - 1) : p[i] # "."
        THEN <<SubSeq(p, 1, dotIndex - 1), SubSeq(p, dotIndex, Len(p))>>
        ELSE <<p, <<>>>>

(* ------------------------------------------------------------------ *)
(* Configuration                                                      *)
(* ------------------------------------------------------------------ *)

DefaultInput == <<"s", "t", "a", "m", "p", "e", "d", "s", "t", "o", "r", "a", "g", "e">>

DefaultClassified == <<"c", "l", "a", "s", "s", "i", "f", "i", "c", "a", "t", "i", "o", "n", "s", "t", "o", "r", "a", "g", "e">>

DefaultResults == <<"r", "e", "s", "u", "l", "t", "s", "t", "o", "r", "a", "g", "e">>

\* INPUT_CONTAINER, CLASSIFICATION_CONTAINER, RESULTS_CONTAINER come from the
\* environment: the defaults, or one container configured for all three
Configs ==
    { [input |-> DefaultInput, classified |-> DefaultClassified, results |-> DefaultResults],
      [input |-> DefaultInput, classified |-> DefaultInput, results |-> DefaultInput] }

ValidationEventType == "Microsoft.EventGrid.SubscriptionValidationEvent"

BlobCreatedEventType == "Microsoft.Storage.BlobCreated"

\* len(url_parts) >= 5
MinUrlParts == 5

\* url_parts[3] (0-based)
UrlContainerIndex == 3

\* url_parts[4:] (0-based)
UrlBlobIndex == 4

(* ------------------------------------------------------------------ *)
(* Inbound events                                                     *)
(* ------------------------------------------------------------------ *)

\* What azeventgrid.get_json() does is a property of the event, the same at
\* every call: it raises, returns None, returns a JSON value that is no mapping
\* (a non-empty list), or returns a mapping whose keys may include url and
\* validationCode.
DataRaises == [kind |-> "raises"]

DataNone == [kind |-> "none"]

DataList == [kind |-> "list"]

\* a mapping with the given keys; url and validationCode are read only when present
DataMapping(keys, url, validationCode) ==
    [kind |-> "mapping", keys |-> keys, url |-> url, validationCode |-> validationCode]

ExampleUrl == <<"h", "t", "t", "p", "s", ":", "/", "/", "a", "c", "c", "t", ".", "b", "l", "o", "b", ".", "c", "o", "r", "e", ".", "w", "i", "n", "d", "o", "w", "s", ".", "n", "e", "t", "/", "s", "t", "a", "m", "p", "e", "d", "s", "t", "o", "r", "a", "g", "e", "/", "f", "o", "l", "d", "e", "r", "/", "a", ".", "p", "d", "f">>

ReportUrl == <<"h", "t", "t", "p", "s", ":", "/", "/", "h", "/", "s", "t", "a", "m", "p", "e", "d", "s", "t", "o", "r", "a", "g", "e", "/", "r", "e", "p", "o", "r", "t", ".", "p", "d", "f">>

UpperPdfUrl == <<"h", "t", "t", "p", "s", ":", "/", "/", "h", "/", "s", "t", "a", "m", "p", "e", "d", "s", "t", "o", "r", "a", "g", "e", "/", "R", ".", "P", "D", "F">>

OtherFolderUrl == <<"h", "t", "t", "p", "s", ":", "/", "/", "h", "/", "s", "t", "a", "m", "p", "e", "d", "s", "t", "o", "r", "a", "g", "e", "/", "o", "t", "h", "e", "r", "/", "a", ".", "p", "d", "f">>

DotPdfUrl == <<"h", "t", "t", "p", "s", ":", "/", "/", "h", "/", "s", "t", "a", "m", "p", "e", "d", "s", "t", "o", "r", "a", "g", "e", "/", ".", "p", "d", "f">>

ClassifiedUrl == <<"h", "t", "t", "p", "s", ":", "/", "/", "h", "/", "s", "t", "a", "m", "p", "e", "d", "s", "t", "o", "r", "a", "g", "e", "/", "a", "_", "C", "l", "a", "s", "s", "i", "f", "i", "e", "d", "_", "x", ".", "p", "d", "f">>

TextUrl == <<"h", "t", "t", "p", "s", ":", "/", "/", "h", "/", "s", "t", "a", "m", "p", "e", "d", "s", "t", "o", "r", "a", "g", "e", "/", "n", "o", "t", "e", "s", ".", "t", "x", "t">>

ClassifiedTextUrl == <<"h", "t", "t", "p", "s", ":", "/", "/", "h", "/", "s", "t", "a", "m", "p", "e", "d", "s", "t", "o", "r", "a", "g", "e", "/", "x", "_", "c", "l", "a", "s", "s", "i", "f", "i", "e", "d", ".", "t", "x", "t">>

ElsewhereUrl == <<"h", "t", "t", "p", "s", ":", "/", "/", "h", "/", "e", "l", "s", "e", "w", "h", "e", "r", "e", "/", "r", "e", "p", "o", "r", "t", ".", "p", "d", "f">>

ElsewhereClassifiedUrl == <<"h", "t", "t", "p", "s", ":", "/", "/", "h", "/", "e", "l", "s", "e", "w", "h", "e", "r", "e", "/", "a", "_", "C", "L", "A", "S", "S", "I", "F", "I", "E", "D", ".", "p", "d", "f">>

FourPartUrl == <<"h", "t", "t", "p", "s", ":", "/", "/", "h", "/", "s", "t", "a", "m", "p", "e", "d", "s", "t", "o", "r", "a", "g", "e">>

NoBlobUrl == <<"h", "t", "t", "p", "s", ":", "/", "/", "h", "/", "s", "t", "a", "m", "p", "e", "d", "s", "t", "o", "r", "a", "g", "e", "/">>

FolderOnlyUrl == <<"h", "t", "t", "p", "s", ":", "/", "/", "h", "/", "s", "t", "a", "m", "p", "e", "d", "s", "t", "o", "r", "a", "g", "e", "/", "f", "o", "l", "d", "e", "r", "/">>

EmptyPdfUrl == <<"h", "t", "t", "p", "s", ":", "/", "/", "h", "/", "s", "t", "a", "m", "p", "e", "d", "s", "t", "o", "r", "a", "g", "e", "/", "e", "m", "p", "t", "y", ".", "p", "d", "f">>

MissingPdfUrl == <<"h", "t", "t", "p", "s", ":", "/", "/", "h", "/", "s", "t", "a", "m", "p", "e", "d", "s", "t", "o", "r", "a", "g", "e", "/", "m", "i", "s", "s", "i", "n", "g", ".", "p", "d", "f">>

\* the artifacts of folder/a.pdf when the output containers are the input
\* container: its copy labelled x/a, its copy labelled invoice, its JSON record
SlashCopyUrl == <<"h", "t", "t", "p", "s", ":", "/", "/", "h", "/", "s", "t", "a", "m", "p", "e", "d", "s", "t", "o", "r", "a", "g", "e", "/", "a", "_", "c", "l", "a", "s", "s", "i", "f", "i", "e", "d", "_", "x", "/", "a", ".", "p", "d", "f">>

InvoiceCopyUrl == <<"h", "t", "t", "p", "s", ":", "/", "/", "h", "/", "s", "t", "a", "m", "p", "e", "d", "s", "t", "o", "r", "a", "g", "e", "/", "a", "_", "c", "l", "a", "s", "s", "i", "f", "i", "e", "d", "_", "i", "n", "v", "o", "i", "c", "e", ".", "p", "d", "f">>

RecordUrl == <<"h", "t", "t", "p", "s", ":", "/", "/", "h", "/", "s", "t", "a", "m", "p", "e", "d", "s", "t", "o", "r", "a", "g", "e", "/", "a", "_", "c", "l", "a", "s", "s", "i", "f", "i", "c", "a", "t", "i", "o", "n", "_", "r", "e", "s", "u", "l", "t", ".", "j", "s", "o", "n">>

Urls ==
    { ExampleUrl, ReportUrl, UpperPdfUrl, OtherFolderUrl, DotPdfUrl, ClassifiedUrl,
      TextUrl, ClassifiedTextUrl, ElsewhereUrl, ElsewhereClassifiedUrl, FourPartUrl,
      NoBlobUrl, FolderOnlyUrl, EmptyPdfUrl, MissingPdfUrl, SlashCopyUrl,
      InvoiceCopyUrl, RecordUrl, <<>> }

ExampleSubject == <<"/", "b", "l", "o", "b", "S", "e", "r", "v", "i", "c", "e", "s", "/", "d", "e", "f", "a", "u", "l", "t", "/", "c", "o", "n", "t", "a", "i", "n", "e", "r", "s", "/", "s", "t", "a", "m", "p", "e", "d", "s", "t", "o", "r", "a", "g", "e", "/", "b", "l", "o", "b", "s", "/", "f", "o", "l", "d", "e", "r", "/", "a", ".", "p", "d", "f">>

ElsewhereSubject == <<"/", "b", "l", "o", "b", "S", "e", "r", "v", "i", "c", "e", "s", "/", "d", "e", "f", "a", "u", "l", "t", "/", "c", "o", "n", "t", "a", "i", "n", "e", "r", "s", "/", "e", "l", "s", "e", "w", "h", "e", "r", "e", "/", "b", "l", "o", "b", "s", "/", "r", "e", "p", "o", "r", "t", ".", "p", "d", "f">>

NoBlobsSubject == <<"/", "b", "l", "o", "b", "S", "e", "r", "v", "i", "c", "e", "s", "/", "d", "e", "f", "a", "u", "l", "t", "/", "c", "o", "n", "t", "a", "i", "n", "e", "r", "s", "/", "s", "t", "a", "m", "p", "e", "d", "s", "t", "o", "r", "a", "g", "e">>

TrailingContainersSubject == <<"/", "b", "l", "o", "b", "s", "/", "x", ".", "p", "d", "f", "/", "c", "o", "n", "t", "a", "i", "n", "e", "r", "s">>

Subjects == { ExampleSubject, ElsewhereSubject, NoBlobsSubject, TrailingContainersSubject, <<>> }

\* the URLs whose own extraction yields no blob name
FallbackUrls == { FourPartUrl, NoBlobUrl, <<>> }

Event(type, subject, data, hasGetJson) ==
    [event_type |-> type, subject |-> subject, data |-> data, has_get_json |-> hasGetJson]

UrlData(url) == DataMapping({"url"}, url, <<>>)

\* The events delivered: validation handshakes, malformed and irrelevant
\* events, and blob-created events over the URLs and subjects above.
Events ==
    { Event(ValidationEventType, ExampleSubject, d, TRUE) :
        d \in { DataRaises, DataNone, DataList, UrlData(ReportUrl),
                DataMapping({"url", "validationCode"}, ReportUrl, <<"c", "o", "d", "e">>),
                DataMapping({"url", "validationCode"}, ReportUrl, <<>>) } }
    \cup { Event("", ExampleSubject, UrlData(ReportUrl), TRUE),
           Event(BlobCreatedEventType, ExampleSubject, UrlData(ReportUrl), FALSE),
           Event("Microsoft.Storage.BlobDeleted", ExampleSubject, UrlData(ReportUrl), TRUE),
           Event("Microsoft.Storage.BlobDeleted", ExampleSubject, DataRaises, TRUE),
           Event(BlobCreatedEventType, ExampleSubject, DataRaises, TRUE),
           Event(BlobCreatedEventType, ExampleSubject, DataNone, TRUE),
           Event(BlobCreatedEventType, ExampleSubject, DataList, TRUE),
           Event(BlobCreatedEventType, ExampleSubject, DataMapping({}, <<>>, <<>>), TRUE) }
    \cup { Event(BlobCreatedEventType, <<>>, UrlData(u), TRUE) : u \in Urls }
    \cup { Event(BlobCreatedEventType, ElsewhereSubject, UrlData(u), TRUE) :
             u \in {ExampleUrl, ElsewhereUrl} }
    \cup { Event(BlobCreatedEventType, s, UrlData(u), TRUE) :
             u \in FallbackUrls, s \in Subjects }

(* ------------------------------------------------------------------ *)
(* EventGridTrigger: validate, extract, filter                        *)
(* ------------------------------------------------------------------ *)

\* event_data.get('url', '')
GetUrl(data) == IF "url" \in data.keys THEN data.url ELSE <<>>

\* event_data.get('validationCode'): None and '' are both falsy, modelled as ''
GetValidationCode(data) == IF "validationCode" \in data.keys THEN data.validationCode ELSE <<>>

\* ExtractFromUrl with the indices of lines 113-114 one too low
ExtractFromUrlOffByOne(blob_url) ==
    LET url_parts == Split(blob_url, "/")
    IN  IF blob_url # <<>> /\ Len(url_parts) >= MinUrlParts
        THEN [container_name |-> url_parts[UrlContainerIndex],
              blob_name |-> Join(SliceFrom(url_parts, UrlBlobIndex - 1), "/")]
        ELSE [container_name |-> <<>>, blob_name |-> <<>>]

\* lines 108-121: container and blob name from data.url
ExtractFromUrl(blob_url) ==
    LET url_parts == Split(blob_url, "/")
    IN  IF blob_url # <<>> /\ Len(url_parts) >= MinUrlParts
        THEN [container_name |-> url_parts[UrlContainerIndex + 1],
              blob_name |-> Join(SliceFrom(url_parts, UrlBlobIndex), "/")]
        ELSE [container_name |-> <<>>, blob_name |-> <<>>]

\* ExtractFromSubject without lines 131-132: the fallback takes the object name
\* from the subject and keeps the container the URL gave
ExtractFromSubjectBlobOnly(subject, fromUrl) ==
    LET subject_parts == Split(subject, "/")
        hasMarkers == /\ \E i \in 1..Len(subject_parts) : subject_parts[i] = <<"c", "o", "n", "t", "a", "i", "n", "e", "r", "s">>
                      /\ \E i \in 1..Len(subject_parts) : subject_parts[i] = <<"b", "l", "o", "b", "s">>
        blob_idx == IndexOf(subject_parts, <<"b", "l", "o", "b", "s">>)
    IN  IF fromUrl.blob_name = <<>> /\ subject # <<>> /\ hasMarkers
        THEN [container_name |-> fromUrl.container_name,
              blob_name |-> IF blob_idx < Len(subject_parts)
                            THEN Join(SliceFrom(subject_parts, blob_idx), "/")
                            ELSE fromUrl.blob_name]
        ELSE fromUrl

\* ExtractFromSubject without the test of blob_name at line 124: the subject,
\* when it has both markers, wins over the URL
ExtractFromSubjectFirst(subject, fromUrl) ==
    LET subject_parts == Split(subject, "/")
        hasMarkers == /\ \E i \in 1..Len(subject_parts) : subject_parts[i] = <<"c", "o", "n", "t", "a", "i", "n", "e", "r", "s">>
                      /\ \E i \in 1..Len(subject_parts) : subject_parts[i] = <<"b", "l", "o", "b", "s">>
        container_idx == IndexOf(subject_parts, <<"c", "o", "n", "t", "a", "i", "n", "e", "r", "s">>)
        blob_idx == IndexOf(subject_parts, <<"b", "l", "o", "b", "s">>)
    IN  IF subject # <<>> /\ hasMarkers
        THEN [container_name |-> IF container_idx < Len(subject_parts)
                                 THEN subject_parts[container_idx + 1]
                                 ELSE fromUrl.container_name,
              blob_name |-> IF blob_idx < Len(subject_parts)
                            THEN Join(SliceFrom(subject_parts, blob_idx), "/")
                            ELSE fromUrl.blob_name]
        ELSE fromUrl

\* lines 124-140: the subject fallback, entered with what the URL gave
ExtractFromSubject(subject, fromUrl) ==
    LET subject_parts == Split(subject, "/")
        hasMarkers == /\ \E i \in 1..Len(subject_parts) : subject_parts[i] = <<"c", "o", "n", "t", "a", "i", "n", "e", "r", "s">>
                      /\ \E i \in 1..Len(subject_parts) : subject_parts[i] = <<"b", "l", "o", "b", "s">>
        container_idx == IndexOf(subject_parts, <<"c", "o", "n", "t", "a", "i", "n", "e", "r", "s">>)   \* 0-based index + 1
        blob_idx == IndexOf(subject_parts, <<"b", "l", "o", "b", "s">>)
    IN  IF fromUrl.blob_name = <<>> /\ subject # <<>> /\ hasMarkers
        THEN [container_name |-> IF container_idx < Len(subject_parts)
                                 THEN subject_parts[container_idx + 1]
                                 ELSE fromUrl.container_name,
              blob_name |-> IF blob_idx < Len(subject_parts)
                            THEN Join(SliceFrom(subject_parts, blob_idx), "/")
                            ELSE fromUrl.blob_name]
        ELSE fromUrl

\* lines 101-140
ExtractLocation(ev) ==
    ExtractFromSubject(ev.subject, ExtractFromUrl(GetUrl(ev.data)))

\* FileNameOf without line 146: the folders stay in the file name
FileNameWithFolders(blob_name) == blob_name

\* line 146
FileNameOf(blob_name) ==
    LET parts == Split(blob_name, "/") IN parts[Len(parts)]

\* IsPdf without the lower() of line 150
IsPdfCaseSensitive(file_name) == EndsWith(file_name, <<".", "p", "d", "f">>)

\* line 150
IsPdf(file_name) == EndsWith(Lower(file_name), <<".", "p", "d", "f">>)

\* IsClassified without the lower() of line 155
IsClassifiedCaseSensitive(file_name) == Contains(file_name, <<"_", "c", "l", "a", "s", "s", "i", "f", "i", "e", "d">>)

\* line 155
IsClassified(file_name) == Contains(Lower(file_name), <<"_", "c", "l", "a", "s", "s", "i", "f", "i", "e", "d">>)

\* lines 204-207: the outermost handler reads the event data once more, outside
\* any try
OuterExcept(ev) ==
    IF ev.has_get_json /\ ev.data.kind = "raises" THEN "raised" ELSE "outer-except"

\* lines 61-74
HandleValidation(ev) ==
    IF ev.data.kind = "raises" THEN "validation-error"
    ELSE IF ev.data.kind # "mapping" THEN "validation-error"     \* .get raises, caught at line 72
    ELSE IF GetValidationCode(ev.data) # <<>> THEN "validated"
    ELSE "validation-no-code"

\* ParseEventData with the read at line 87 outside its try: the exception
\* reaches the outermost handler
ParseEventDataUnguarded(ev) ==
    IF ev.data.kind \in {"raises", "list"} THEN "raised" ELSE "parsed"

\* lines 86-93: the event data is read, and the keys of a truthy value are
\* listed, inside a try
ParseEventData(ev) ==
    IF ev.data.kind \in {"raises", "list"} THEN "parse-failed" ELSE "parsed"

\* Filter without the container test of line 160
FilterNoContainerCheck(loc, input_container) ==
    LET file_name == FileNameOf(loc.blob_name)
    IN  IF loc.blob_name = <<>> THEN "no-blob-name"
        ELSE IF ~IsPdf(file_name) THEN "not-pdf"
        ELSE IF IsClassified(file_name) THEN "already-classified"
        ELSE "process"

\* lines 142-162: the skip conditions, in the code's order
Filter(loc, input_container) ==
    LET file_name == FileNameOf(loc.blob_name)
    IN  IF loc.blob_name = <<>> THEN "no-blob-name"
        ELSE IF ~IsPdf(file_name) THEN "not-pdf"
        ELSE IF IsClassified(file_name) THEN "already-classified"
        ELSE IF loc.container_name # input_container THEN "wrong-container"
        ELSE "process"

\* Decide with the return of line 74 missing: a validation event that is not
\* acknowledged falls through to the blob rules
DecideValidationFallsThrough(ev, input_container) ==
    IF ev.event_type = ValidationEventType /\ HandleValidation(ev) = "validated" THEN "validated"
    ELSE IF ev.event_type = "" THEN "missing-event-type"
    ELSE IF ~ev.has_get_json THEN "no-get-json"
    ELSE IF ParseEventData(ev) = "parse-failed" THEN "parse-failed"
    ELSE IF ParseEventData(ev) = "raised" THEN OuterExcept(ev)
    ELSE IF ev.event_type # BlobCreatedEventType THEN "not-blob-created"
    ELSE IF ev.data.kind = "none" THEN OuterExcept(ev)
    ELSE Filter(ExtractLocation(ev), input_container)

\* lines 54-162: the decision for an event; "process" continues to the download
Decide(ev, input_container) ==
    IF ev.event_type = ValidationEventType THEN HandleValidation(ev)
    ELSE IF ev.event_type = "" THEN "missing-event-type"
    ELSE IF ~ev.has_get_json THEN "no-get-json"
    ELSE IF ParseEventData(ev) = "parse-failed" THEN "parse-failed"
    ELSE IF ParseEventData(ev) = "raised" THEN OuterExcept(ev)
    ELSE IF ev.event_type # BlobCreatedEventType THEN "not-blob-created"
    ELSE IF ev.data.kind = "none" THEN OuterExcept(ev)            \* None.get at line 101
    ELSE Filter(ExtractLocation(ev), input_container)

(* ------------------------------------------------------------------ *)
(* Values the collaborators return                                    *)
(* ------------------------------------------------------------------ *)

\* Python's None
PyNone == [kind |-> "None"]

Bytes(b) == [kind |-> "bytes", val |-> b]

Str(s) == [kind |-> "str", val |-> s]

\* a parsed JSON mapping with the given keys
JMapping(keys, classification) ==
    [kind |-> "mapping", keys |-> keys, classification |-> classification]

\* a parsed JSON body that is a non-empty list
JList == [kind |-> "list"]

Invoice == <<"i", "n", "v", "o", "i", "c", "e">>

Unknown == <<"u", "n", "k", "n", "o", "w", "n">>

\* a label with a path separator, as hierarchical categories have
SlashLabel == <<"x", "/", "a">>

\* the classification strings the service returns
Labels == { Invoice, SlashLabel }

\* What the HTTP exchange of call_classification_api can be: an exception
\* before a response, a request timeout, or a response with a status, a
\* content type and a body (unparseable, or the value it parses to).
Responses ==
    { [kind |-> "error"], [kind |-> "timeout"] }
    \cup { [kind |-> "response", status |-> 500, json_content_type |-> TRUE,
            body |-> JMapping({"classification"}, Invoice)],
           [kind |-> "response", status |-> 200, json_content_type |-> FALSE,
            body |-> JMapping({"classification"}, Invoice)],
           [kind |-> "response", status |-> 200, json_content_type |-> TRUE,
            body |-> [kind |-> "unparseable"]] }
    \cup { [kind |-> "response", status |-> 200, json_content_type |-> TRUE, body |-> b] :
             b \in { PyNone, JList, JMapping({}, <<>>), JMapping({"confidence"}, <<>>) }
                   \cup { JMapping({"classification", "confidence"}, c) : c \in Labels } }

\* the truth value of a Python value: None, b'' and {} are falsy
Truthy(v) ==
    CASE v.kind = "None" -> FALSE
      [] v.kind = "bytes" -> v.val # <<>>
      [] v.kind = "mapping" -> v.keys # {}
      [] OTHER -> TRUE

\* lines 304-321
handle_classification_response(resp) ==
    IF resp.json_content_type /\ resp.body.kind # "unparseable" THEN resp.body ELSE PyNone

\* lines 268-302
call_classification_api(resp) ==
    IF resp.kind = "response" /\ resp.status = 200
    THEN handle_classification_response(resp)
    ELSE PyNone

\* classification_result.get('classification', 'unknown')
GetClassification(classification_result) ==
    IF "classification" \in classification_result.keys
    THEN classification_result.classification
    ELSE Unknown

\* ClassifiedFilename with the suffix appended after the extension
ClassifiedFilenameAfterExt(original_file_name, classification_result) ==
    original_file_name \o <<"_", "c", "l", "a", "s", "s", "i", "f", "i", "e", "d", "_">> \o GetClassification(classification_result)

\* lines 326-329
ClassifiedFilename(original_file_name, classification_result) ==
    SplitExt(original_file_name)[1] \o <<"_", "c", "l", "a", "s", "s", "i", "f", "i", "e", "d", "_">>
        \o GetClassification(classification_result) \o SplitExt(original_file_name)[2]

\* lines 366-367
JsonFilename(original_file_name) ==
    SplitExt(original_file_name)[1] \o <<"_", "c", "l", "a", "s", "s", "i", "f", "i", "c", "a", "t", "i", "o", "n", "_", "r", "e", "s", "u", "l", "t", ".", "j", "s", "o", "n">>

\* lines 372-383: the body of the JSON record
JsonRecord(original_file_name, classification_result) ==
    [kind |-> "json", original_filename |-> original_file_name,
     classification_result |-> classification_result]

(* ------------------------------------------------------------------ *)
(* Storage                                                            *)
(* ------------------------------------------------------------------ *)

Key(container, name) == [container |-> container, name |-> name]

\* upload_blob(..., overwrite=True): the object of that key is replaced
Put(store, key, object) ==
    [k \in DOMAIN store \cup {key} |-> IF k = key THEN object ELSE store[k]]

Pdf(b) == [data |-> Bytes(b), content_type |-> "application/pdf"]

\* an artifact left by an earlier run, which a new write of that name replaces
OldCopyKey == Key(DefaultClassified, <<"r", "e", "p", "o", "r", "t", "_", "c", "l", "a", "s", "s", "i", "f", "i", "e", "d", "_", "i", "n", "v", "o", "i", "c", "e", ".", "p", "d", "f">>)

OldRecordKey == Key(DefaultResults, <<"r", "e", "p", "o", "r", "t", "_", "c", "l", "a", "s", "s", "i", "f", "i", "c", "a", "t", "i", "o", "n", "_", "r", "e", "s", "u", "l", "t", ".", "j", "s", "o", "n">>)

\* the source objects in the input container (missing.pdf is not among them)
\* and the two old artifacts
InitialStorage ==
    LET names == { <<"f", "o", "l", "d", "e", "r", "/", "a", ".", "p", "d", "f">>, <<"r", "e", "p", "o", "r", "t", ".", "p", "d", "f">>, <<"R", ".", "P", "D", "F">>,
                   <<"o", "t", "h", "e", "r", "/", "a", ".", "p", "d", "f">>, <<".", "p", "d", "f">>, <<"e", "m", "p", "t", "y", ".", "p", "d", "f">> }
    IN  [k \in { Key(DefaultInput, n) : n \in names } \cup {OldCopyKey, OldRecordKey} |->
            CASE k = OldCopyKey -> Pdf(<<9>>)
              [] k = OldRecordKey ->
                    [data |-> [kind |-> "json", original_filename |-> <<"r", "e", "p", "o", "r", "t", ".", "p", "d", "f">>,
                               classification_result |-> JMapping({"classification"}, <<"o", "l", "d">>)],
                     content_type |-> "application/json"]
              [] k.name = <<"e", "m", "p", "t", "y", ".", "p", "d", "f">> -> Pdf(<<>>)
              [] k.name = <<"o", "t", "h", "e", "r", "/", "a", ".", "p", "d", "f">> -> Pdf(<<2>>)
              [] k.name = <<"r", "e", "p", "o", "r", "t", ".", "p", "d", "f">> -> Pdf(<<1, 2>>)
              [] OTHER -> Pdf(<<1>>)]

(* ------------------------------------------------------------------ *)
(* State                                                              *)
(* ------------------------------------------------------------------ *)

\* the invocations the platform may run
Slots == {"s1", "s2"}

\* event deliveries in one behaviour
MaxDeliveries == 2

VARIABLES
    config,     \* the three container names, fixed at startup (lines 21-23)
    storage,    \* the blob store: key -> object
    inv,        \* per invocation: the handler's position and locals
    active,     \* the invocations the platform uses
    delivered   \* events delivered so far

vars == <<config, storage, inv, active, delivered>>

NoEvent == Event("", <<>>, DataNone, FALSE)

NoResult == [kind |-> "none"]

NoCalls == [download |-> 0, api |-> 0, upload |-> 0, json |-> 0]

\* an invocation that has not received an event
Idle ==
    [pc |-> "idle", ev |-> NoEvent, decision |-> "none",
     url_container_name |-> <<>>, url_blob_name |-> <<>>,
     container_name |-> <<>>, blob_name |-> <<>>, file_name |-> <<>>,
     pdf_content |-> PyNone, classification_result |-> PyNone,
     upload_result |-> NoResult, json_result |-> NoResult, result |-> NoResult,
     handler |-> "idle", logged |-> "none",
     expired |-> FALSE, expired_during |-> "none",
     calls |-> NoCalls, writes |-> <<>>]

Init ==
    /\ config \in Configs
    /\ storage = InitialStorage
    /\ inv = [i \in Slots |-> Idle]
    /\ active = {"s1"}
    /\ delivered = 0

(* ------------------------------------------------------------------ *)
(* EventGridTrigger, step by step                                     *)
(* ------------------------------------------------------------------ *)

\* the decisions taken after the blob location was extracted
Extracted == {"no-blob-name", "not-pdf", "already-classified", "wrong-container", "process"}

\* lines 48-164 for one event: the decision and the handler's locals where it
\* returns or goes on to the download (url_* are container_name and blob_name
\* as they stand at line 122, before the subject fallback)
Decode(ev, input_container) ==
    LET decision == Decide(ev, input_container)
        reached == decision \in Extracted
        fromUrl == IF reached THEN ExtractFromUrl(GetUrl(ev.data))
                   ELSE [container_name |-> <<>>, blob_name |-> <<>>]
        loc == IF reached THEN ExtractLocation(ev) ELSE fromUrl
    IN  [decision |-> decision,
         url_container_name |-> fromUrl.container_name,
         url_blob_name |-> fromUrl.blob_name,
         container_name |-> loc.container_name,
         blob_name |-> loc.blob_name,
         file_name |-> IF loc.blob_name # <<>> THEN FileNameOf(loc.blob_name) ELSE <<>>]

\* Decode for every configured input container and every event
Decoded ==
    [c \in {cfg.input : cfg \in Configs} |-> [ev \in Events |-> Decode(ev, c)]]

\* lines 48-164: the event is decoded and filtered; a skipped event ends the
\* invocation, an accepted one goes on to the download
Receive(i, ev) ==
    /\ i \in active
    /\ inv[i].pc \in {"idle", "done"}
    /\ delivered < MaxDeliveries
    /\ delivered' = delivered + 1
    /\ LET d == Decoded[config.input][ev]
           decision == d.decision
       IN  inv' = [inv EXCEPT ![i] =
                [Idle EXCEPT
                    !.ev = ev,
                    !.decision = decision,
                    !.url_container_name = d.url_container_name,
                    !.url_blob_name = d.url_blob_name,
                    !.container_name = d.container_name,
                    !.blob_name = d.blob_name,
                    !.file_name = d.file_name,
                    !.pc = IF decision = "process" THEN "download" ELSE "done",
                    !.calls = IF decision = "process"
                              THEN [NoCalls EXCEPT !.download = 1] ELSE NoCalls,
                    !.handler = IF decision = "process" THEN "running"
                                ELSE IF decision = "raised" THEN "raised"
                                ELSE "completed",
                    !.logged = IF decision = "process" THEN "none" ELSE "skipped"]]
    /\ UNCHANGED <<config, storage, active>>

\* lines 212-238: None when the client, the existence check or the download
\* raises, or when the blob does not exist; its content otherwise
download_blob_content(store, container_name, blob_name, raises) ==
    IF raises THEN PyNone
    ELSE IF Key(container_name, blob_name) \notin DOMAIN store THEN PyNone
    ELSE store[Key(container_name, blob_name)].data

\* lines 167-171: the download returns; without content the handler logs and
\* returns, with content it starts the pipeline under the overall deadline
DownloadReturn(i, raises) ==
    /\ inv[i].pc = "download"
    /\ LET pdf_content == download_blob_content(storage, inv[i].container_name,
                                                inv[i].blob_name, raises)
       IN  inv' = [inv EXCEPT ![i] =
                IF Truthy(pdf_content)
                THEN [@ EXCEPT !.pdf_content = pdf_content,
                               !.pc = "classify",
                               !.calls = [@ EXCEPT !.api = @ + 1]]
                ELSE [@ EXCEPT !.pdf_content = pdf_content,
                               !.pc = "done",
                               !.handler = "completed",
                               !.logged = "download-failed"]]
    /\ UNCHANGED <<config, storage, active, delivered>>

\* asyncio.wait_for(..., timeout=600.0): the deadline passes while a step is in
\* flight
Expire(i) ==
    /\ inv[i].pc \in {"classify", "upload", "json"}
    /\ ~inv[i].expired
    /\ inv' = [inv EXCEPT ![i] = [@ EXCEPT !.expired = TRUE, !.expired_during = inv[i].pc]]
    /\ UNCHANGED <<config, storage, active, delivered>>

\* lines 192-193: the classification call is awaited, so the expired deadline
\* cancels it (CancelledError is no Exception: the except clauses of lines
\* 264 and 297-302 do not swallow it) and wait_for raises TimeoutError, which
\* the handler logs
Timeout(i) ==
    /\ inv[i].pc = "classify"
    /\ inv[i].expired
    /\ inv' = [inv EXCEPT ![i] =
            [@ EXCEPT !.pc = "done", !.handler = "completed", !.logged = "timeout"]]
    /\ UNCHANGED <<config, storage, active, delivered>>

\* lines 185-189: the handler logs the outcome and completes
Finish(r, result) ==
    [r EXCEPT !.result = result,
              !.pc = "done",
              !.handler = "completed",
              !.logged = IF result.success THEN "success" ELSE "failure"]

ApiFailed == [success |-> FALSE, error |-> "API call failed"]

\* AfterClassification without the test at line 245
AfterClassificationNoNullCheck(r, classification_result) ==
    IF classification_result.kind # "mapping"
    THEN Finish([r EXCEPT !.classification_result = classification_result,
                          !.upload_result = [success |-> FALSE, error |-> "AttributeError"]],
                [success |-> FALSE, error |-> "AttributeError"])
    ELSE [r EXCEPT !.classification_result = classification_result,
                   !.pc = "upload",
                   !.calls = [@ EXCEPT !.upload = @ + 1]]

\* AfterClassification with one more classification call after a failed one
AfterClassificationRetries(r, classification_result) ==
    IF ~Truthy(classification_result)
    THEN IF r.calls.api < 2
         THEN [r EXCEPT !.calls = [@ EXCEPT !.api = @ + 1]]
         ELSE Finish([r EXCEPT !.classification_result = classification_result], ApiFailed)
    ELSE IF classification_result.kind # "mapping"
    THEN Finish([r EXCEPT !.classification_result = classification_result,
                          !.upload_result = [success |-> FALSE, error |-> "AttributeError"]],
                [success |-> FALSE, error |-> "AttributeError"])
    ELSE [r EXCEPT !.classification_result = classification_result,
                   !.pc = "upload",
                   !.calls = [@ EXCEPT !.upload = @ + 1]]

\* AfterClassification with the AttributeError of a result without .get
\* escaping upload_classified_pdf and process_pdf_classification
AfterClassificationErrorEscapes(r, classification_result) ==
    IF ~Truthy(classification_result)
    THEN Finish([r EXCEPT !.classification_result = classification_result], ApiFailed)
    ELSE IF classification_result.kind # "mapping"
    THEN [r EXCEPT !.classification_result = classification_result,
                   !.pc = "done",
                   !.handler = "completed",
                   !.logged = "failure"]
    ELSE [r EXCEPT !.classification_result = classification_result,
                   !.pc = "upload",
                   !.calls = [@ EXCEPT !.upload = @ + 1]]

\* lines 244-251 and 326-328: the classification call returns.  A falsy result
\* ends the pipeline; a result without .get makes upload_classified_pdf fail
\* before it reaches storage; otherwise the classified copy is uploaded.
AfterClassification(r, classification_result) ==
    IF ~Truthy(classification_result)
    THEN Finish([r EXCEPT !.classification_result = classification_result], ApiFailed)
    ELSE IF classification_result.kind # "mapping"
    THEN Finish([r EXCEPT !.classification_result = classification_result,
                          !.upload_result = [success |-> FALSE, error |-> "AttributeError"]],
                [success |-> FALSE, error |-> "AttributeError"])
    ELSE [r EXCEPT !.classification_result = classification_result,
                   !.pc = "upload",
                   !.calls = [@ EXCEPT !.upload = @ + 1]]

ClassifyReturn(i, resp) ==
    /\ inv[i].pc = "classify"
    /\ ~inv[i].expired
    /\ inv' = [inv EXCEPT ![i] = AfterClassification(@, call_classification_api(resp))]
    /\ UNCHANGED <<config, storage, active, delivered>>

\* UploadReturn without the return of line 251: a failed upload goes on to the
\* JSON record
UploadReturnContinues(i, ok) ==
    /\ inv[i].pc = "upload"
    /\ LET r == inv[i]
           classified_filename == ClassifiedFilename(r.file_name, r.classification_result)
           key == Key(config.classified, classified_filename)
           upload_result ==
               IF ok THEN [success |-> TRUE, classified_filename |-> classified_filename,
                           file_size |-> Len(r.pdf_content.val)]
               ELSE [success |-> FALSE, error |-> "upload error",
                     classified_filename |-> classified_filename]
       IN  /\ storage' = IF ok THEN Put(storage, key, Pdf(r.pdf_content.val)) ELSE storage
           /\ inv' = [inv EXCEPT ![i] =
                [@ EXCEPT !.upload_result = upload_result,
                          !.writes = IF ok THEN Append(@, key) ELSE @,
                          !.pc = "json",
                          !.calls = [@ EXCEPT !.json = @ + 1]]]
    /\ UNCHANGED <<config, active, delivered>>

\* UploadReturn with the file name kept in a variable of the module, which the
\* invocation that began last has set
UploadReturnSharedFileName(i, ok) ==
    /\ inv[i].pc = "upload"
    /\ LET r == inv[i]
           others == { j \in Slots \ {i} : inv[j].pc # "idle" }
           file_name == IF others = {} THEN r.file_name
                        ELSE inv[CHOOSE j \in others : TRUE].file_name
           classified_filename == ClassifiedFilename(file_name, r.classification_result)
           key == Key(config.classified, classified_filename)
           upload_result ==
               IF ok THEN [success |-> TRUE, classified_filename |-> classified_filename,
                           file_size |-> Len(r.pdf_content.val)]
               ELSE [success |-> FALSE, error |-> "upload error"]
       IN  /\ storage' = IF ok THEN Put(storage, key, Pdf(r.pdf_content.val)) ELSE storage
           /\ inv' = [inv EXCEPT ![i] =
                IF ok
                THEN [@ EXCEPT !.upload_result = upload_result,
                               !.writes = Append(@, key),
                               !.pc = "json",
                               !.calls = [@ EXCEPT !.json = @ + 1]]
                ELSE Finish([@ EXCEPT !.upload_result = upload_result], upload_result)]
    /\ UNCHANGED <<config, active, delivered>>

\* lines 323-361 and 250-251: upload_blob is a blocking call of the synchronous
\* client, so it runs to its end whether or not the deadline has passed.  A
\* failure is returned as the pipeline's outcome; a success goes on to the
\* JSON record.
UploadReturn(i, ok) ==
    /\ inv[i].pc = "upload"
    /\ LET r == inv[i]
           classified_filename == ClassifiedFilename(r.file_name, r.classification_result)
           key == Key(config.classified, classified_filename)
           upload_result ==
               IF ok THEN [success |-> TRUE, classified_filename |-> classified_filename,
                           file_size |-> Len(r.pdf_content.val)]
               ELSE [success |-> FALSE, error |-> "upload error"]
       IN  /\ storage' = IF ok THEN Put(storage, key, Pdf(r.pdf_content.val)) ELSE storage
           /\ inv' = [inv EXCEPT ![i] =
                IF ok
                THEN [@ EXCEPT !.upload_result = upload_result,
                               !.writes = Append(@, key),
                               !.pc = "json",
                               !.calls = [@ EXCEPT !.json = @ + 1]]
                ELSE Finish([@ EXCEPT !.upload_result = upload_result], upload_result)]
    /\ UNCHANGED <<config, active, delivered>>

\* Outcome with the JSON record's failure failing the whole pipeline
OutcomeJsonFatal(upload_result, json_result, classification_result) ==
    [success |-> json_result.success,
     classified_filename |-> upload_result.classified_filename,
     json_filename |-> IF json_result.success THEN Str(json_result.json_filename) ELSE PyNone,
     classification |-> GetClassification(classification_result),
     json_stored |-> json_result.success]

\* lines 256-262
Outcome(upload_result, json_result, classification_result) ==
    [success |-> TRUE,
     classified_filename |-> upload_result.classified_filename,
     json_filename |-> IF json_result.success THEN Str(json_result.json_filename) ELSE PyNone,
     classification |-> GetClassification(classification_result),
     json_stored |-> json_result.success]

\* lines 363-412 and 254-262: the JSON record is written, again by a blocking
\* call; whether or not it succeeds the outcome is a success
JsonReturn(i, ok) ==
    /\ inv[i].pc = "json"
    /\ LET r == inv[i]
           json_filename == JsonFilename(r.file_name)
           key == Key(config.results, json_filename)
           json_result ==
               IF ok THEN [success |-> TRUE, json_filename |-> json_filename]
               ELSE [success |-> FALSE, error |-> "json save error"]
       IN  /\ storage' = IF ok
                         THEN Put(storage, key,
                                  [data |-> JsonRecord(r.file_name, r.classification_result),
                                   content_type |-> "application/json"])
                         ELSE storage
           /\ inv' = [inv EXCEPT ![i] =
                Finish([@ EXCEPT !.json_result = json_result,
                                 !.writes = IF ok THEN Append(@, key) ELSE @],
                       Outcome(r.upload_result, json_result, r.classification_result))]
    /\ UNCHANGED <<config, active, delivered>>

Next ==
    \E i \in Slots :
        \/ \E ev \in Events : Receive(i, ev)
        \/ \E raises \in BOOLEAN : DownloadReturn(i, raises)
        \/ Expire(i)
        \/ Timeout(i)
        \/ \E resp \in Responses : ClassifyReturn(i, resp)
        \/ \E ok \in BOOLEAN : UploadReturn(i, ok)
        \/ \E ok \in BOOLEAN : JsonReturn(i, ok)

Spec == Init /\ [][Next]_vars

(* ------------------------------------------------------------------ *)
(* Two invocations at once                                            *)
(* ------------------------------------------------------------------ *)

\* The platform delivers events concurrently: both invocations may be under
\* way, their steps interleaved in any order.  The events are two PDFs of
\* different folders with the same last segment, and a text file.
ConcurrentEvents ==
    { Event(BlobCreatedEventType, <<>>, UrlData(u), TRUE) :
        u \in { ExampleUrl, OtherFolderUrl, TextUrl } }

ConcurrentInit ==
    /\ config \in Configs
    /\ storage = InitialStorage
    /\ inv = [i \in Slots |-> Idle]
    /\ active = Slots
    /\ delivered = 0

ConcurrentNext ==
    \E i \in Slots :
        \/ \E ev \in ConcurrentEvents : Receive(i, ev)
        \/ \E raises \in BOOLEAN : DownloadReturn(i, raises)
        \/ Expire(i)
        \/ Timeout(i)
        \/ \E resp \in Responses : ClassifyReturn(i, resp)
        \/ \E ok \in BOOLEAN : UploadReturn(i, ok)
        \/ \E ok \in BOOLEAN : JsonReturn(i, ok)

ConcurrentSpec == ConcurrentInit /\ [][ConcurrentNext]_vars

(* ------------------------------------------------------------------ *)
(* Properties                                                         *)
(* ------------------------------------------------------------------ *)

\* a result dict that reports success
Succeeded(x) == "success" \in DOMAIN x /\ x.success

\* a result dict that reports failure
Failed(x) == "success" \in DOMAIN x /\ ~x.success

\* the classification call of this invocation has returned
ApiReturned(r) ==
    r.calls.api = 1 /\ r.pc \in {"upload", "json", "done"} /\ r.logged # "timeout"

\* the invocation reached neither the blob store nor the classification service
NoCollaboratorCalled(r) == r.calls = NoCalls /\ r.writes = <<>>

\* C1: no exception leaves EventGridTrigger.  Whatever the event and whatever
\* the download, the classification call, the uploads and the deadline do, an
\* invocation never ends by raising, and one that has ended has completed
\* normally; this includes the events that reach the outermost except branch.
C1_HandlerNeverRaises ==
    \A i \in Slots :
        /\ inv[i].handler # "raised"
        /\ inv[i].decision # "raised"
        /\ inv[i].pc = "done" => inv[i].handler = "completed"

\* C1 witness: an event whose data is None has taken the handler through its
\* outermost except branch, and the handler completed.
C1_Witness ==
    \E i \in Slots :
        /\ inv[i].decision = "outer-except"
        /\ inv[i].ev.data.kind = "none"
        /\ inv[i].pc = "done"
        /\ inv[i].handler = "completed"

\* C2 (as claimed): once the deadline has passed during a step, that step is
\* aborted: the invocation is either still in that step, waiting for the
\* cancellation, or it has ended with the timeout logged; it never moves on to
\* a later step, never makes the write that was in flight, and never ends with
\* any other outcome.
C2_DeadlineAbortsStepInFlight ==
    \A i \in Slots :
        inv[i].expired =>
            /\ inv[i].pc \in {inv[i].expired_during, "done"}
            /\ inv[i].pc = "done" =>
                  /\ inv[i].logged = "timeout"
                  /\ inv[i].handler = "completed"
                  /\ inv[i].expired_during = "classify" => inv[i].writes = <<>>
                  /\ inv[i].expired_during = "upload" => inv[i].writes = <<>>
                  /\ inv[i].expired_during = "json" => Len(inv[i].writes) = 1

\* C3: when the classification client returned None the pipeline's outcome is
\* exactly {success: False, error: "API call failed"}, the invocation has ended
\* and neither write was attempted.
C3_NullResultFailsWithoutWrites ==
    \A i \in Slots :
        (ApiReturned(inv[i]) /\ inv[i].classification_result = PyNone) =>
            /\ inv[i].pc = "done"
            /\ inv[i].result = ApiFailed
            /\ inv[i].calls.upload = 0
            /\ inv[i].calls.json = 0
            /\ inv[i].writes = <<>>
            /\ inv[i].upload_result = NoResult
            /\ inv[i].json_result = NoResult

\* C3 witness: the client returned None and the pipeline ended with the
\* "API call failed" outcome.
C3_Witness ==
    \E i \in Slots :
        /\ ApiReturned(inv[i])
        /\ inv[i].classification_result = PyNone
        /\ inv[i].result = ApiFailed

\* C4: when the classified copy was written and the JSON record failed, the
\* outcome is a success with json_stored False, json_filename None and
\* classified_filename the name of the copy that was written, and the handler
\* logs a success.
C4_JsonFailureIsNotFatal ==
    \A i \in Slots :
        (Succeeded(inv[i].upload_result) /\ Failed(inv[i].json_result)) =>
            /\ inv[i].pc = "done"
            /\ inv[i].result.success
            /\ ~inv[i].result.json_stored
            /\ inv[i].result.json_filename = PyNone
            /\ inv[i].result.classified_filename = inv[i].upload_result.classified_filename
            /\ inv[i].writes = <<Key(config.classified, inv[i].result.classified_filename)>>
            /\ inv[i].logged = "success"

\* C4 witness: the copy was written, the JSON record failed, and the pipeline
\* has returned.
C4_Witness ==
    \E i \in Slots :
        /\ Succeeded(inv[i].upload_result)
        /\ Failed(inv[i].json_result)
        /\ inv[i].pc = "done"
        /\ Key(config.classified, inv[i].result.classified_filename) \in DOMAIN storage

\* "_classified" in either letter case, position by position
ClassifiedMarker == <<<<"_", "c", "l", "a", "s", "s", "i", "f", "i", "e", "d">>, <<"_", "C", "L", "A", "S", "S", "I", "F", "I", "E", "D">>>>

\* the name contains _classified in any letter case
HasClassifiedMarker(name) ==
    \E k \in 0..(Len(name) - Len(ClassifiedMarker[1])) :
        \A j \in 1..Len(ClassifiedMarker[1]) :
            name[k + j] \in {ClassifiedMarker[1][j], ClassifiedMarker[2][j]}

\* the name ends in .pdf in any letter case
EndsInPdfAnyCase(name) ==
    LET n == Len(name)
    IN  /\ n >= 4
        /\ name[n - 3] = "."
        /\ name[n - 2] \in {"p", "P"}
        /\ name[n - 1] \in {"d", "D"}
        /\ name[n] \in {"f", "F"}

\* C5: an event whose fileName contains _classified, in any letter case, is
\* skipped before the download: no download, no API call, no storage write,
\* whatever its container and extension.
C5_ClassifiedNameIsSkipped ==
    \A i \in Slots :
        HasClassifiedMarker(inv[i].file_name) =>
            /\ inv[i].pc = "done"
            /\ inv[i].handler = "completed"
            /\ inv[i].decision \in {"not-pdf", "already-classified"}
            /\ NoCollaboratorCalled(inv[i])

\* C5 witness: a PDF in the input container whose name holds the marker in
\* mixed case was delivered and skipped.
C5_Witness ==
    \E i \in Slots :
        /\ inv[i].file_name = <<"a", "_", "C", "l", "a", "s", "s", "i", "f", "i", "e", "d", "_", "x", ".", "p", "d", "f">>
        /\ inv[i].container_name = config.input
        /\ inv[i].decision = "already-classified"
        /\ inv[i].pc = "done"

\* C6: an event whose fileName does not end in .pdf, compared without regard
\* to case, is skipped with no download, API call or write; a fileName ending
\* in .PDF or another case variant is not rejected by this rule.
C6_NonPdfIsSkipped ==
    \A i \in Slots :
        (inv[i].decision \in Extracted /\ inv[i].blob_name # <<>>) =>
            /\ ~EndsInPdfAnyCase(inv[i].file_name) =>
                  /\ inv[i].decision = "not-pdf"
                  /\ inv[i].pc = "done"
                  /\ NoCollaboratorCalled(inv[i])
            /\ EndsInPdfAnyCase(inv[i].file_name) => inv[i].decision # "not-pdf"

\* C6 witness: a .txt object of the input container was delivered and skipped.
C6_Witness ==
    \E i \in Slots :
        /\ inv[i].file_name = <<"n", "o", "t", "e", "s", ".", "t", "x", "t">>
        /\ inv[i].container_name = config.input
        /\ inv[i].decision = "not-pdf"
        /\ inv[i].pc = "done"

\* C7: an event whose extracted container is not the configured input
\* container is not processed: no download, no API call, no storage write.
C7_OtherContainerIsSkipped ==
    \A i \in Slots :
        (inv[i].decision \in Extracted /\ inv[i].container_name # config.input) =>
            /\ inv[i].pc = "done"
            /\ inv[i].decision # "process"
            /\ NoCollaboratorCalled(inv[i])

\* C7 witness: an unclassified PDF of another container was delivered and
\* skipped for its container.
C7_Witness ==
    \E i \in Slots :
        /\ inv[i].file_name = <<"r", "e", "p", "o", "r", "t", ".", "p", "d", "f">>
        /\ inv[i].container_name = <<"e", "l", "s", "e", "w", "h", "e", "r", "e">>
        /\ inv[i].decision = "wrong-container"
        /\ inv[i].pc = "done"

\* C8: a subscription-validation event ends the invocation at once, with or
\* without a validation code and whether or not reading its data raises: no
\* storage read, no storage write, no API call, and none of the blob rules
\* decides it.
C8_ValidationTouchesNothing ==
    \A i \in Slots :
        (inv[i].pc # "idle" /\ inv[i].ev.event_type = ValidationEventType) =>
            /\ inv[i].pc = "done"
            /\ inv[i].handler = "completed"
            /\ inv[i].decision \in {"validated", "validation-no-code", "validation-error"}
            /\ NoCollaboratorCalled(inv[i])
            /\ inv[i].blob_name = <<>>

\* C8 witness: a validation event whose data cannot be read was delivered and
\* the handler completed.
C8_Witness ==
    \E i \in Slots :
        /\ inv[i].ev.event_type = ValidationEventType
        /\ inv[i].ev.data.kind = "raises"
        /\ inv[i].pc = "done"
        /\ inv[i].handler = "completed"

\* the service returned a mapping with a classification string
ReturnedLabel(r) ==
    r.classification_result.kind = "mapping" /\ "classification" \in r.classification_result.keys

\* fileName without its last four characters, and those four characters
StemOf(name) == SubSeq(name, 1, Len(name) - 4)

ExtOf(name) == SubSeq(name, Len(name) - 3, Len(name))

\* a character other than a dot precedes the dot of the trailing extension
HasStem(name) == \E k \in 1..(Len(name) - 4) : name[k] # "."

\* what the invocation wrote is what storage holds under its two names
WritesReplace(r) ==
    /\ Succeeded(r.upload_result) =>
          /\ Len(r.writes) >= 1
          /\ r.writes[1].container = config.classified
          /\ r.writes[1] \in DOMAIN storage
          /\ storage[r.writes[1]] = Pdf(r.pdf_content.val)
    /\ Succeeded(r.json_result) =>
          /\ Len(r.writes) = 2
          /\ r.writes[2].container = config.results
          /\ r.writes[2] \in DOMAIN storage
          /\ storage[r.writes[2]].data = JsonRecord(r.file_name, r.classification_result)

\* C9 (as claimed): for every accepted fileName = stem + ext, ext its trailing
\* .pdf in the original case, and every classification string c, the copy is
\* written as stem + "_classified_" + c + ext and the JSON record as
\* stem + "_classification_result.json", each replacing the object of that name.
C9_ArtifactNames ==
    \A i \in Slots :
        (inv[i].decision = "process" /\ ReturnedLabel(inv[i])) =>
            /\ WritesReplace(inv[i])
            /\ Succeeded(inv[i].upload_result) =>
                  inv[i].writes[1].name =
                      StemOf(inv[i].file_name) \o <<"_", "c", "l", "a", "s", "s", "i", "f", "i", "e", "d", "_">>
                          \o inv[i].classification_result.classification
                          \o ExtOf(inv[i].file_name)
            /\ Succeeded(inv[i].json_result) =>
                  inv[i].writes[2].name =
                      StemOf(inv[i].file_name) \o <<"_", "c", "l", "a", "s", "s", "i", "f", "i", "c", "a", "t", "i", "o", "n", "_", "r", "e", "s", "u", "l", "t", ".", "j", "s", "o", "n">>

\* C9 (amended): the names above are written when a character other than a
\* dot precedes the final dot of fileName; a fileName with only dots before its
\* final dot (such as .pdf) has no extension for os.path.splitext, and its copy
\* is written as fileName + "_classified_" + c and its JSON record as
\* fileName + "_classification_result.json".  Each write replaces the object
\* of that name.
C9_ArtifactNamesBySplitExt ==
    \A i \in Slots :
        (inv[i].decision = "process" /\ ReturnedLabel(inv[i])) =>
            LET name == inv[i].file_name
                c == inv[i].classification_result.classification
                stem == IF HasStem(name) THEN StemOf(name) ELSE name
                ext == IF HasStem(name) THEN ExtOf(name) ELSE <<>>
            IN  /\ WritesReplace(inv[i])
                /\ Succeeded(inv[i].upload_result) =>
                      inv[i].writes[1].name = stem \o <<"_", "c", "l", "a", "s", "s", "i", "f", "i", "e", "d", "_">> \o c \o ext
                /\ Succeeded(inv[i].json_result) =>
                      inv[i].writes[2].name = stem \o <<"_", "c", "l", "a", "s", "s", "i", "f", "i", "c", "a", "t", "i", "o", "n", "_", "r", "e", "s", "u", "l", "t", ".", "j", "s", "o", "n">>

\* C9 witness: report.pdf was classified as invoice and both artifacts were
\* written over the old ones, under report_classified_invoice.pdf and
\* report_classification_result.json.
C9_Witness ==
    \E i \in Slots :
        /\ inv[i].file_name = <<"r", "e", "p", "o", "r", "t", ".", "p", "d", "f">>
        /\ ReturnedLabel(inv[i])
        /\ inv[i].writes = <<OldCopyKey, OldRecordKey>>
        /\ storage[OldCopyKey] = Pdf(<<1, 2>>)
        /\ storage[OldRecordKey].data.classification_result.classification = Invoice
        /\ InitialStorage[OldCopyKey] = Pdf(<<9>>)

\* the number of "/" in a string
Slashes(s) == Cardinality({k \in 1..Len(s) : s[k] = "/"})

\* C10: for a blob-created event with readable data, the URL strategy raises
\* nothing.  With five or more "/"-separated segments the URL is three
\* segments, then the container, then the object name, and fileName is the
\* last segment of the object name; with fewer the object name it yields is
\* empty.  The example URL gives stampedstorage, folder/a.pdf and a.pdf.
C10_UrlExtraction ==
    \A i \in Slots :
        (/\ inv[i].pc # "idle"
         /\ inv[i].ev.event_type = BlobCreatedEventType
         /\ inv[i].ev.has_get_json
         /\ inv[i].ev.data.kind = "mapping") =>
            LET url == IF "url" \in inv[i].ev.data.keys THEN inv[i].ev.data.url ELSE <<>>
                container == inv[i].url_container_name
                objectName == inv[i].url_blob_name
                prefix == SubSeq(url, 1, Len(url) - Len(container) - Len(objectName) - 2)
            IN  /\ inv[i].decision \in Extracted
                /\ Slashes(url) + 1 >= 5 =>
                      /\ url = prefix \o <<"/">> \o container \o <<"/">> \o objectName
                      /\ Slashes(prefix) = 2
                      /\ Slashes(container) = 0
                /\ (Slashes(url) + 1 >= 5 /\ objectName # <<>>) =>
                      /\ inv[i].blob_name = objectName
                      /\ Slashes(inv[i].file_name) = 0
                      /\ \/ objectName = inv[i].file_name
                         \/ EndsWith(objectName, <<"/">> \o inv[i].file_name)
                /\ Slashes(url) + 1 < 5 => objectName = <<>>
                /\ url = ExampleUrl =>
                      /\ container = <<"s", "t", "a", "m", "p", "e", "d", "s", "t", "o", "r", "a", "g", "e">>
                      /\ objectName = <<"f", "o", "l", "d", "e", "r", "/", "a", ".", "p", "d", "f">>
                      /\ inv[i].file_name = <<"a", ".", "p", "d", "f">>

\* C10 witness: the example URL was delivered and decoded.
C10_Witness ==
    \E i \in Slots :
        /\ inv[i].ev.data.kind = "mapping"
        /\ inv[i].ev.data.url = ExampleUrl
        /\ inv[i].url_container_name = <<"s", "t", "a", "m", "p", "e", "d", "s", "t", "o", "r", "a", "g", "e">>
        /\ inv[i].url_blob_name = <<"f", "o", "l", "d", "e", "r", "/", "a", ".", "p", "d", "f">>
        /\ inv[i].file_name = <<"a", ".", "p", "d", "f">>

\* C11: process_pdf_classification raises nothing past its boundary.  Whatever
\* the classification client and the two writers do (fail, raise, return a
\* value that is no mapping), a pipeline that has ended other than by the
\* deadline has returned an outcome; a failed outcome carries error, a
\* successful one carries classified_filename, the name of the copy written.
C11_PipelineReturnsOutcome ==
    \A i \in Slots :
        /\ (ApiReturned(inv[i]) /\ inv[i].pc = "done") =>
              /\ inv[i].result # NoResult
              /\ inv[i].handler = "completed"
        /\ inv[i].result # NoResult =>
              /\ "success" \in DOMAIN inv[i].result
              /\ ~inv[i].result.success => "error" \in DOMAIN inv[i].result
              /\ inv[i].result.success =>
                    /\ "classified_filename" \in DOMAIN inv[i].result
                    /\ inv[i].writes[1] =
                          Key(config.classified, inv[i].result.classified_filename)

\* C11 witness: the client returned a JSON list, the copy's writer raised on
\* it, and the pipeline returned a failure outcome with an error.
C11_Witness ==
    \E i \in Slots :
        /\ inv[i].classification_result = JList
        /\ inv[i].pc = "done"
        /\ Failed(inv[i].result)
        /\ "error" \in DOMAIN inv[i].result

\* C12: the steps of one invocation are ordered and short-circuit.  The copy's
\* write has started only if the classification call returned a truthy
\* mapping; the JSON record's write has started only if the copy's write
\* reported success; and when the copy's write failed, the pipeline has ended
\* with that very failure as its outcome and the JSON write was never started.
C12_StepsOrderedAndShortCircuit ==
    \A i \in Slots :
        /\ (inv[i].pc = "upload" \/ inv[i].calls.upload > 0) =>
              /\ inv[i].calls.api = 1
              /\ inv[i].classification_result.kind = "mapping"
              /\ Truthy(inv[i].classification_result)
        /\ (inv[i].pc = "json" \/ inv[i].calls.json > 0) =>
              /\ inv[i].calls.upload = 1
              /\ Succeeded(inv[i].upload_result)
              /\ Len(inv[i].writes) >= 1
        /\ inv[i].json_result # NoResult => Succeeded(inv[i].upload_result)
        /\ Failed(inv[i].upload_result) =>
              /\ inv[i].pc = "done"
              /\ inv[i].result = inv[i].upload_result
              /\ inv[i].calls.json = 0
              /\ inv[i].json_result = NoResult
              /\ inv[i].writes = <<>>

\* C12 witness: the copy's write was started and failed, and the pipeline
\* returned the writer's failure.
C12_Witness ==
    \E i \in Slots :
        /\ inv[i].calls.upload = 1
        /\ Failed(inv[i].upload_result)
        /\ inv[i].result = inv[i].upload_result
        /\ inv[i].pc = "done"

\* C13 (as claimed): a 200 response whose JSON body is a mapping is a
\* successful classification whatever fields the mapping has, the empty
\* mapping included: the client returns the mapping, the copy's write is
\* started, a mapping without classification is named and reported with
\* "unknown", and the "API call failed" outcome is returned only when the
\* client returned None.
C13_MappingIsSuccess ==
    /\ \A resp \in Responses :
          (/\ resp.kind = "response"
           /\ resp.status = 200
           /\ resp.json_content_type
           /\ resp.body.kind = "mapping") => call_classification_api(resp) = resp.body
    /\ \A i \in Slots :
          /\ (ApiReturned(inv[i]) /\ inv[i].classification_result.kind = "mapping") =>
                /\ inv[i].calls.upload = 1
                /\ inv[i].result # ApiFailed
                /\ (Succeeded(inv[i].result)
                     /\ "classification" \notin inv[i].classification_result.keys) =>
                      /\ inv[i].result.classification = Unknown
                      /\ inv[i].result.classified_filename =
                            SplitExt(inv[i].file_name)[1] \o <<"_", "c", "l", "a", "s", "s", "i", "f", "i", "e", "d", "_", "u", "n", "k", "n", "o", "w", "n">>
                                \o SplitExt(inv[i].file_name)[2]
          /\ inv[i].result = ApiFailed => inv[i].classification_result = PyNone

\* the object the invocation's event names
SourceKey(r) == Key(r.container_name, r.blob_name)

\* C14 (as claimed): there is no reprocessing loop.  A blob-created event for
\* an object the handler itself wrote (a classified copy or a JSON record,
\* which storage holds and initial storage did not) is skipped: no download,
\* no API call and no storage write, whatever the file, the label and the
\* configured containers.
C14_ArtifactEventIsSkipped ==
    \A i \in Slots :
        (/\ inv[i].decision \in Extracted
         /\ SourceKey(inv[i]) \in DOMAIN storage
         /\ SourceKey(inv[i]) \notin DOMAIN InitialStorage) =>
            /\ inv[i].decision # "process"
            /\ inv[i].pc = "done"
            /\ NoCollaboratorCalled(inv[i])

\* C15: nothing is retried inside an invocation.  Whatever the event and
\* whichever collaborators fail, one invocation makes at most one download,
\* one classification call, one write of the copy and one write of the JSON
\* record, and so at most one object is written in each role.
C15_NoRetry ==
    \A i \in Slots :
        /\ inv[i].calls.download <= 1
        /\ inv[i].calls.api <= 1
        /\ inv[i].calls.upload <= 1
        /\ inv[i].calls.json <= 1
        /\ Len(inv[i].writes) <= inv[i].calls.upload + inv[i].calls.json
        /\ inv[i].calls.api <= inv[i].calls.download
        /\ inv[i].calls.upload <= inv[i].calls.api
        /\ inv[i].calls.json <= inv[i].calls.upload

\* C15 witness: the classification call failed and the invocation ended after
\* that one call, with no write.
C15_Witness ==
    \E i \in Slots :
        /\ inv[i].pc = "done"
        /\ inv[i].result = ApiFailed
        /\ inv[i].calls = [download |-> 1, api |-> 1, upload |-> 0, json |-> 0]

\* what the pipeline returns, from what this invocation alone has seen
OwnOutcome(r) ==
    IF ~Truthy(r.classification_result) THEN ApiFailed
    ELSE IF Failed(r.upload_result) THEN r.upload_result
    ELSE Outcome(r.upload_result, r.json_result, r.classification_result)

\* the keys of this invocation's two artifacts, from its own file name and
\* its own classification result
OwnCopyKey(r) == Key(config.classified, ClassifiedFilename(r.file_name, r.classification_result))

OwnRecordKey(r) == Key(config.results, JsonFilename(r.file_name))

\* A step of invocation i is the step it would take alone: it leaves the
\* other invocation as it was, it decodes its own event, it downloads the
\* object its event names, it writes storage only under its own names, with
\* the bytes it downloaded and its own classification result, and its outcome
\* follows from its own collaborators' answers.
StepsAlone(i) ==
    LET r == inv[i]
        n == inv'[i]
    IN  n # r =>
          /\ \A j \in Slots \ {i} : inv'[j] = inv[j]
          /\ n.pc # "idle" =>
                LET d == Decoded[config.input][n.ev]
                IN  /\ n.decision = d.decision
                    /\ n.container_name = d.container_name
                    /\ n.blob_name = d.blob_name
                    /\ n.file_name = d.file_name
          /\ (r.pc = "download" /\ n.pdf_content # PyNone) =>
                n.pdf_content = storage[SourceKey(r)].data
          /\ r.pc # "download" => n.pdf_content = IF r.pc \in {"idle", "done"} THEN PyNone
                                                    ELSE r.pdf_content
          /\ IF r.pc = "upload" /\ Succeeded(n.upload_result)
             THEN /\ storage' = Put(storage, OwnCopyKey(r), Pdf(r.pdf_content.val))
                  /\ n.writes = <<OwnCopyKey(r)>>
             ELSE IF r.pc = "json" /\ Succeeded(n.json_result)
             THEN /\ storage' = Put(storage, OwnRecordKey(r),
                                    [data |-> JsonRecord(r.file_name, r.classification_result),
                                     content_type |-> "application/json"])
                  /\ n.writes = <<OwnCopyKey(r), OwnRecordKey(r)>>
             ELSE /\ storage' = storage
                  /\ n.writes = IF r.pc \in {"idle", "done"} THEN <<>> ELSE r.writes
          /\ n.result # NoResult => (n.pc = "done" /\ n.result = OwnOutcome(n))

\* C16: concurrent invocations are independent.  Under every interleaving of
\* the steps of two invocations, for the same event or for different ones,
\* each step of an invocation reads and changes that invocation's own state
\* only, so its outcome and the names and bytes it writes are those of the
\* same invocation running alone with the same collaborator answers.
C16_InvocationsIndependent == [][\A i \in Slots : StepsAlone(i)]_vars

\* C16 witness: two invocations, for folder/a.pdf and other/a.pdf, are both
\* between their two writes; they wrote the same copy name and storage holds
\* the bytes of one of them.
C16_Witness ==
    /\ inv["s1"].pc = "json"
    /\ inv["s2"].pc = "json"
    /\ inv["s1"].blob_name # inv["s2"].blob_name
    /\ inv["s1"].writes = inv["s2"].writes
    /\ inv["s1"].pdf_content # inv["s2"].pdf_content
    /\ storage[inv["s1"].writes[1]] = Pdf(inv["s1"].pdf_content.val)

\* C17: the URL takes precedence over the subject.  For a blob-created event
\* with readable data: when data.url yields an object name, the location is
\* the URL's container and object name, whatever the subject says; an object
\* name taken from the subject (what follows its blobs marker) appears only
\* when the URL yielded none; and when neither yields one the event is skipped
\* with no download, no API call and no write.
C17_UrlTakesPrecedence ==
    \A i \in Slots :
        (inv[i].pc # "idle" /\ inv[i].decision \in Extracted) =>
            /\ inv[i].url_blob_name # <<>> =>
                  /\ inv[i].container_name = inv[i].url_container_name
                  /\ inv[i].blob_name = inv[i].url_blob_name
            /\ inv[i].blob_name # inv[i].url_blob_name =>
                  /\ inv[i].url_blob_name = <<>>
                  /\ EndsWith(inv[i].ev.subject, <<"/", "b", "l", "o", "b", "s", "/">> \o inv[i].blob_name)
            /\ inv[i].blob_name = <<>> =>
                  /\ inv[i].decision = "no-blob-name"
                  /\ inv[i].pc = "done"
                  /\ inv[i].handler = "completed"
                  /\ NoCollaboratorCalled(inv[i])

\* C17 witness: the example URL arrived with a subject naming another
\* container and object; the URL's location was taken and the file accepted.
C17_Witness ==
    \E i \in Slots :
        /\ inv[i].ev.subject = ElsewhereSubject
        /\ inv[i].ev.data.url = ExampleUrl
        /\ inv[i].container_name = DefaultInput
        /\ inv[i].blob_name = <<"f", "o", "l", "d", "e", "r", "/", "a", ".", "p", "d", "f">>
        /\ inv[i].decision = "process"

\* C18 (as claimed): the pipeline is dispatched exactly when the download
\* returned the object's bytes.  After the download of an accepted event: if
\* it returned None (no such object, or the existence check or the download
\* raised) there is no API call and no write and the handler has completed;
\* if it returned bytes, of whatever length, the classification call is made.
C18_DispatchedIffBytes ==
    \A i \in Slots :
        (inv[i].decision = "process" /\ inv[i].pc # "download") =>
            /\ inv[i].pdf_content = PyNone =>
                  /\ inv[i].calls.api = 0
                  /\ inv[i].writes = <<>>
                  /\ inv[i].pc = "done"
                  /\ inv[i].handler = "completed"
            /\ inv[i].pdf_content # PyNone => inv[i].calls.api = 1

\* what follows the last "/" of an object name
LastSegment(name) == SubSeq(name, RFind(name, "/") + 1, Len(name))

\* invocation j has written its copy, and invocation i, for an object with the
\* same last segment and the same label, is writing its own
WritesAfter(i, j) ==
    /\ i # j
    /\ Succeeded(inv[j].upload_result)
    /\ inv[i].pc = "upload"
    /\ Succeeded(inv'[i].upload_result)
    /\ LastSegment(inv[i].blob_name) = LastSegment(inv[j].blob_name)
    /\ GetClassification(inv[i].classification_result)
          = GetClassification(inv[j].classification_result)

\* invocation j has written its JSON record, and invocation i, for an object
\* with the same last segment, is writing its own
RecordsAfter(i, j) ==
    /\ i # j
    /\ Succeeded(inv[j].json_result)
    /\ inv[i].pc = "json"
    /\ Succeeded(inv'[i].json_result)
    /\ LastSegment(inv[i].blob_name) = LastSegment(inv[j].blob_name)

\* C19: the artifact names come from the last path segment alone.  When an
\* invocation writes its copy after another invocation wrote the copy of an
\* object with the same last segment and the same label, in whatever folders
\* the two objects lie, it writes the same name and its bytes replace the
\* earlier ones; likewise its JSON record replaces the earlier record.
C19_SameLastSegmentSameNames ==
    [][\A i, j \in Slots :
          /\ WritesAfter(i, j) =>
                /\ inv'[i].writes[1] = inv[j].writes[1]
                /\ inv[j].writes[1] \in DOMAIN storage
                /\ storage'[inv[j].writes[1]] = Pdf(inv[i].pdf_content.val)
          /\ RecordsAfter(i, j) =>
                /\ inv'[i].writes[2] = inv[j].writes[2]
                /\ inv[j].writes[2] \in DOMAIN storage
                /\ storage'[inv[j].writes[2]].data =
                      JsonRecord(inv[i].file_name, inv[i].classification_result)]_vars

\* C19 witness: folder/a.pdf and other/a.pdf were both classified as invoice;
\* both invocations wrote a_classified_invoice.pdf and
\* a_classification_result.json, and storage holds the bytes and the record
\* of other/a.pdf.
C19_Witness ==
    /\ inv["s1"].blob_name = <<"f", "o", "l", "d", "e", "r", "/", "a", ".", "p", "d", "f">>
    /\ inv["s2"].blob_name = <<"o", "t", "h", "e", "r", "/", "a", ".", "p", "d", "f">>
    /\ inv["s1"].pc = "done"
    /\ inv["s2"].pc = "done"
    /\ inv["s1"].writes = inv["s2"].writes
    /\ inv["s2"].writes = <<Key(config.classified, <<"a", "_", "c", "l", "a", "s", "s", "i", "f", "i", "e", "d", "_", "i", "n", "v", "o", "i", "c", "e", ".", "p", "d", "f">>),
                            Key(config.results, <<"a", "_", "c", "l", "a", "s", "s", "i", "f", "i", "c", "a", "t", "i", "o", "n", "_", "r", "e", "s", "u", "l", "t", ".", "j", "s", "o", "n">>)>>
    /\ storage[inv["s2"].writes[1]] = Pdf(<<2>>)
    /\ InitialStorage[Key(DefaultInput, <<"f", "o", "l", "d", "e", "r", "/", "a", ".", "p", "d", "f">>)] = Pdf(<<1>>)
    /\ storage[inv["s2"].writes[2]].data.classification_result
          = inv["s2"].classification_result

\* C20 (as claimed): the document is preserved.  The copy an invocation
\* uploaded holds exactly the bytes it downloaded, as a PDF, and none of its
\* writes goes to the object its event names, so that object is as it was
\* downloaded, whatever containers are configured.
C20_ContentPreserved ==
    \A i \in Slots :
        /\ (inv[i].pc = "json" /\ Succeeded(inv[i].upload_result)) =>
              /\ storage[inv[i].writes[1]] = Pdf(inv[i].pdf_content.val)
              /\ inv[i].upload_result.file_size = Len(inv[i].pdf_content.val)
        /\ inv[i].pdf_content.kind = "bytes" =>
              /\ SourceKey(inv[i]) \in DOMAIN storage
              /\ storage[SourceKey(inv[i])].data = inv[i].pdf_content
        /\ \A k \in 1..Len(inv[i].writes) : inv[i].writes[k] # SourceKey(inv[i])

\* the invocation's event was accepted with an object name the URL did not give
ProcessedThroughFallback(r) == r.decision = "process" /\ r.url_blob_name = <<>>

\* each subject read as the claim reads it: whether it has a containers token
\* and a blobs token, the tokens that follow the first containers token, and
\* what follows the first blobs token, rejoined with "/"
SubjectReading ==
    [s \in Subjects |->
        LET parts == Split(s, "/")
            has_containers == \E k \in 1..Len(parts) : parts[k] = <<"c", "o", "n", "t", "a", "i", "n", "e", "r", "s">>
            has_blobs == \E k \in 1..Len(parts) : parts[k] = <<"b", "l", "o", "b", "s">>
        IN  [has_containers |-> has_containers,
             has_blobs |-> has_blobs,
             after_containers |-> IF has_containers
                                  THEN SliceFrom(parts, IndexOf(parts, <<"c", "o", "n", "t", "a", "i", "n", "e", "r", "s">>))
                                  ELSE <<>>,
             after_blobs |-> IF has_blobs
                             THEN Join(SliceFrom(parts, IndexOf(parts, <<"b", "l", "o", "b", "s">>)), "/")
                             ELSE <<>>]]

\* C21: an event that reaches the download through the subject fallback has
\* both parts of its location from the subject.  The subject has a containers
\* token and a blobs token, each followed by a further token; the container
\* is the token after the first containers token and the object name is what
\* follows the first blobs token, rejoined with "/".  The container the URL
\* gave is never kept beside an object name from the subject in such an event.
C21_FallbackLocationFromSubject ==
    \A i \in Slots :
        ProcessedThroughFallback(inv[i]) =>
            LET s == SubjectReading[inv[i].ev.subject]
            IN  /\ s.has_containers
                /\ s.has_blobs
                /\ s.after_containers # <<>>
                /\ s.after_blobs # <<>>
                /\ inv[i].container_name = s.after_containers[1]
                /\ inv[i].blob_name = s.after_blobs
                /\ inv[i].container_name = config.input

\* C21 witness: a URL of four segments, which gives neither container nor
\* object name, arrived with the example subject; stampedstorage and
\* folder/a.pdf were taken from the subject and the object was downloaded.
C21_Witness ==
    \E i \in Slots :
        /\ ProcessedThroughFallback(inv[i])
        /\ inv[i].ev.data.url = FourPartUrl
        /\ inv[i].url_container_name = <<>>
        /\ inv[i].container_name = DefaultInput
        /\ inv[i].blob_name = <<"f", "o", "l", "d", "e", "r", "/", "a", ".", "p", "d", "f">>
        /\ inv[i].pc = "classify"

====
